---- MODULE Spec2Model ----
(***************************************************************************)
(* Model of the Fibonacci spiral generator: the Fibonacci engine           *)
(* (fibonacci.rs), the input validator (ui.rs, mod validation), the        *)
(* view-model FibonacciApp (app.rs) and the spiral layout calculator       *)
(* (visualization.rs).                                                     *)
(*                                                                         *)
(* Text is modelled as a sequence of one-character strings, so that        *)
(* trimming, parsing and formatting are computed and not assumed.          *)
(***************************************************************************)
EXTENDS Integers, Sequences, FiniteSets, TLC

VARIABLES
    \* ---- Fibonacci engine: one call of one of the four functions ----
    fn,                 \* the function being called, "idle" between calls
    arg_n,              \* its argument n
    pc,                 \* "idle", "loop" (inside the for loop) or "done"
    loop_i,             \* the loop variable i of the generators
    sequence,           \* the local Vec<u64> the generators build
    memo,               \* the HashMap of fib_memoized, as left by the call
    ret,                \* the returned value (a number, a sequence, a bool)
    underflowed,        \* a u64 subtraction was evaluated below zero
    \* ---- input validator: one call of validate_input ----
    v_input,            \* the &str passed to validate_input
    v_ret,              \* the returned Result<u32, String>
    \* ---- view-model FibonacciApp ----
    input_text,
    result_text,
    fibonacci_sequence,
    current_n,
    last_event,         \* the event the last frame dispatched
    prev_has_results,   \* has_results() at the start of the last frame
    rendered,           \* the panels the last frame rendered
    \* ---- spiral layout: one call of calculate_spiral_rectangles ----
    lay_pc,             \* "idle", "loop" (inside the for loop) or "done"
    lay_rect,           \* the viewport `rect`
    lay_sequence,       \* the slice `fibonacci_sequence` passed in
    lay_i,              \* the loop variable i
    unit,               \* the scale unit
    temp_rectangles,    \* the (rect, value, index) triples built so far
    current_width,
    current_height,
    base_x,
    base_y,
    rectangles,         \* the returned Vec<FibonacciRectangle>
    \* ---- label drawing: one iteration of the loop of draw_rectangles ----
    draw_rect,          \* fib_rect.rect of the iteration
    text_size           \* the font size chosen for its label, 0 before

engine_vars == <<fn, arg_n, pc, loop_i, sequence, memo, ret, underflowed>>
validator_vars == <<v_input, v_ret>>
app_vars == <<input_text, result_text, fibonacci_sequence, current_n,
              last_event, prev_has_results, rendered>>
layout_vars == <<lay_pc, lay_rect, lay_sequence, lay_i, unit, temp_rectangles,
                 current_width, current_height, base_x, base_y, rectangles>>
draw_vars == <<draw_rect, text_size>>
vars == <<engine_vars, validator_vars, app_vars, layout_vars, draw_vars>>

(***************************************************************************)
(* Bounds                                                                  *)
(***************************************************************************)
\* largest n the engine is called with
FibMaxN == 30
\* longest text, in characters, drawn from Alphabet for validate_input
MaxTextLen == 3
\* the view-model is offered the decimal texts of 0..MaxInputN
MaxInputN == 27
\* largest number is_fibonacci_number is called with
IsFibMaxX == 400
DrawMaxPx == 100

(***************************************************************************)
(* Fibonacci engine (fibonacci.rs)                                         *)
(***************************************************************************)
NoRet == "none"

RECURSIVE fib(_)
fib(n) == IF n < 2 THEN n ELSE fib(n - 1) + fib(n - 2)

\* fib_memo_helper(n, memo): the result and the memo as the call leaves it.
RECURSIVE fib_memo_helper(_, _)

\* fib_memo_helper with the result stored under the key n - 1
fib_memo_helper_wrong_key(n, m) ==
    IF n \in DOMAIN m
    THEN [result |-> m[n], memo |-> m]
    ELSE IF n < 2
         THEN [result |-> n, memo |-> ((n - 1) :> n) @@ m]
         ELSE LET a == fib_memo_helper(n - 1, m)
                  b == fib_memo_helper(n - 2, a.memo)
                  result == a.result + b.result
              IN  [result |-> result, memo |-> ((n - 1) :> result) @@ b.memo]

fib_memo_helper(n, m) ==
    IF n \in DOMAIN m
    THEN [result |-> m[n], memo |-> m]
    ELSE IF n < 2
         THEN [result |-> n, memo |-> (n :> n) @@ m]
         ELSE LET a == fib_memo_helper(n - 1, m)
                  b == fib_memo_helper(n - 2, a.memo)
                  result == a.result + b.result
              IN  [result |-> result, memo |-> (n :> result) @@ b.memo]

EmptyMap == [k \in {} |-> 0]

fib_memoized(n) == fib_memo_helper(n, EmptyMap).result

EngineIdle ==
    /\ fn = "idle" /\ pc = "idle" /\ arg_n = 0 /\ loop_i = 0
    /\ sequence = <<>> /\ memo = EmptyMap /\ ret = NoRet
    /\ underflowed = FALSE

\* fib(n), fibonacci.rs:17-23
FibCall ==
    /\ pc = "idle"
    /\ \E n \in 0..FibMaxN :
        /\ fn' = "fib" /\ arg_n' = n /\ pc' = "done"
        /\ ret' = fib(n)
    /\ UNCHANGED <<loop_i, sequence, memo, underflowed>>
    /\ UNCHANGED <<validator_vars, app_vars, layout_vars, draw_vars>>

\* fib_memoized(n), fibonacci.rs:42-60
FibMemoizedCall ==
    /\ pc = "idle"
    /\ \E n \in 0..FibMaxN :
        /\ fn' = "fib_memoized" /\ arg_n' = n /\ pc' = "done"
        /\ memo' = fib_memo_helper(n, EmptyMap).memo
        /\ ret' = fib_memoized(n)
    /\ UNCHANGED <<loop_i, sequence, underflowed>>
    /\ UNCHANGED <<validator_vars, app_vars, layout_vars, draw_vars>>

\* generate_sequence(n), fibonacci.rs:32-38: entry, Vec::with_capacity
GenerateSequenceBegin ==
    /\ pc = "idle"
    /\ \E n \in 0..FibMaxN :
        /\ fn' = "generate_sequence" /\ arg_n' = n
    /\ pc' = "loop" /\ loop_i' = 0 /\ sequence' = <<>>
    /\ UNCHANGED <<memo, ret, underflowed>>
    /\ UNCHANGED <<validator_vars, app_vars, layout_vars, draw_vars>>

\* one iteration of `for i in 0..=n { sequence.push(fib(i)) }`
GenerateSequenceStep ==
    /\ pc = "loop" /\ fn = "generate_sequence"
    /\ loop_i <= arg_n
    /\ sequence' = Append(sequence, fib(loop_i))
    /\ loop_i' = loop_i + 1
    /\ UNCHANGED <<fn, arg_n, pc, memo, ret, underflowed>>
    /\ UNCHANGED <<validator_vars, app_vars, layout_vars, draw_vars>>

\* the loop is exhausted: return sequence
GenerateSequenceReturn ==
    /\ pc = "loop" /\ fn = "generate_sequence"
    /\ loop_i > arg_n
    /\ ret' = sequence /\ pc' = "done"
    /\ UNCHANGED <<fn, arg_n, loop_i, sequence, memo, underflowed>>
    /\ UNCHANGED <<validator_vars, app_vars, layout_vars, draw_vars>>

\* generate_sequence_iterative(n), fibonacci.rs:63-73: everything before
\* the loop.  n = 0 returns vec![0] at once.
IterativePrefix(n) ==
    IF n >= 1 THEN <<0, 1>> ELSE <<0>>

GenerateSequenceIterativeBegin ==
    /\ pc = "idle"
    /\ \E n \in 0..FibMaxN :
        /\ fn' = "generate_sequence_iterative" /\ arg_n' = n
        /\ IF n = 0
           THEN /\ pc' = "done" /\ ret' = <<0>>
                /\ UNCHANGED <<loop_i, sequence, underflowed>>
           ELSE /\ pc' = "loop" /\ loop_i' = 2
                /\ sequence' = IterativePrefix(n)
                /\ UNCHANGED ret
    /\ UNCHANGED <<memo, underflowed>>
    /\ UNCHANGED <<validator_vars, app_vars, layout_vars, draw_vars>>

\* the loop body adding sequence[i-1] to itself
IterativeNextSameTerm(seq, i) == seq[i] + seq[i]

\* the body of `for i in 2..=n`: sequence[i-1] + sequence[i-2], 0-based
IterativeNext(seq, i) == seq[i] + seq[i - 1]

GenerateSequenceIterativeStep ==
    /\ pc = "loop" /\ fn = "generate_sequence_iterative"
    /\ loop_i <= arg_n
    /\ sequence' = Append(sequence, IterativeNext(sequence, loop_i))
    /\ loop_i' = loop_i + 1
    /\ UNCHANGED <<fn, arg_n, pc, memo, ret, underflowed>>
    /\ UNCHANGED <<validator_vars, app_vars, layout_vars, draw_vars>>

GenerateSequenceIterativeReturn ==
    /\ pc = "loop" /\ fn = "generate_sequence_iterative"
    /\ loop_i > arg_n
    /\ ret' = sequence /\ pc' = "done"
    /\ UNCHANGED <<fn, arg_n, loop_i, sequence, memo, underflowed>>
    /\ UNCHANGED <<validator_vars, app_vars, layout_vars, draw_vars>>

\* the caller drops the result; the engine keeps no state between calls
EngineFinish ==
    /\ pc = "done"
    /\ fn' = "idle" /\ pc' = "idle" /\ arg_n' = 0 /\ loop_i' = 0
    /\ sequence' = <<>> /\ memo' = EmptyMap /\ ret' = NoRet
    /\ underflowed' = FALSE
    /\ UNCHANGED <<validator_vars, app_vars, layout_vars, draw_vars>>

\* the whole of generate_sequence_iterative(n) as a function, for callers
RECURSIVE IterativeLoop(_, _, _)
IterativeLoop(seq, i, n) ==
    IF i > n THEN seq
    ELSE IterativeLoop(Append(seq, IterativeNext(seq, i)), i + 1, n)

generate_sequence_iterative(n) ==
    IF n = 0 THEN <<0>> ELSE IterativeLoop(IterativePrefix(n), 2, n)

(***************************************************************************)
(* Text: a sequence of one-character strings                               *)
(***************************************************************************)
DigitChars == <<"0", "1", "2", "3", "4", "5", "6", "7", "8", "9">>

IsDigit(c) == \E d \in 1..10 : DigitChars[d] = c

\* char::to_digit(10) of a decimal digit
DigitVal(c) == (CHOOSE d \in 1..10 : DigitChars[d] = c) - 1

\* char::is_whitespace, for the characters the model uses
Whitespace == {" ", "\t", "\n", "\r"}

\* Display of an unsigned integer: its decimal digits, no sign, no padding
RECURSIVE to_string(_)
to_string(k) ==
    IF k < 10 THEN <<DigitChars[k + 1]>>
    ELSE Append(to_string(k \div 10), DigitChars[(k % 10) + 1])

\* str::trim_start / str::trim_end / str::trim
RECURSIVE trim_start(_)
trim_start(s) ==
    IF s # <<>> /\ Head(s) \in Whitespace THEN trim_start(Tail(s)) ELSE s

RECURSIVE trim_end(_)
trim_end(s) ==
    IF s # <<>> /\ s[Len(s)] \in Whitespace
    THEN trim_end(SubSeq(s, 1, Len(s) - 1))
    ELSE s

trim(s) == trim_end(trim_start(s))

(***************************************************************************)
(* str::parse::<u32>.  A u32 does not fit the checker's integers, so the   *)
(* accumulator is kept as two limbs, value = hi * U32Base + lo, and the    *)
(* checked multiply-and-add overflows exactly above u32::MAX =             *)
(* 42949 * 100000 + 67295 = 4294967295.                                    *)
(***************************************************************************)
U32Base == 100000
U32MaxHi == 42949
U32MaxLo == 67295

U32Zero == [hi |-> 0, lo |-> 0]

\* acc.checked_mul(10) and then checked_add(d): Some(value) or None
CheckedMulAdd(acc, d) ==
    LET lo10 == acc.lo * 10 + d
        hi == acc.hi * 10 + (lo10 \div U32Base)
        lo == lo10 % U32Base
    IN  IF hi > U32MaxHi \/ (hi = U32MaxHi /\ lo > U32MaxLo)
        THEN [some |-> FALSE, hi |-> 0, lo |-> 0]
        ELSE [some |-> TRUE, hi |-> hi, lo |-> lo]

RECURSIVE ParseDigits(_, _)
ParseDigits(s, acc) ==
    IF s = <<>> THEN [ok |-> TRUE, hi |-> acc.hi, lo |-> acc.lo, kind |-> "none"]
    ELSE IF ~IsDigit(Head(s))
         THEN [ok |-> FALSE, hi |-> 0, lo |-> 0, kind |-> "InvalidDigit"]
         ELSE LET next == CheckedMulAdd(acc, DigitVal(Head(s)))
              IN  IF ~next.some
                  THEN [ok |-> FALSE, hi |-> 0, lo |-> 0, kind |-> "PosOverflow"]
                  ELSE ParseDigits(Tail(s), next)

\* from_str of a signed type: a leading '-' is skipped like a leading '+'
parse_u32_signed(s) ==
    IF s = <<>>
    THEN [ok |-> FALSE, hi |-> 0, lo |-> 0, kind |-> "Empty"]
    ELSE IF s = <<"+">> \/ s = <<"-">>
         THEN [ok |-> FALSE, hi |-> 0, lo |-> 0, kind |-> "InvalidDigit"]
         ELSE IF Head(s) = "+" \/ Head(s) = "-"
              THEN ParseDigits(Tail(s), U32Zero)
              ELSE ParseDigits(s, U32Zero)

\* u32::from_str: empty is an error, a lone sign is an error, one leading
\* '+' is skipped, a leading '-' is an invalid digit for an unsigned type
parse_u32(s) ==
    IF s = <<>>
    THEN [ok |-> FALSE, hi |-> 0, lo |-> 0, kind |-> "Empty"]
    ELSE IF s = <<"+">> \/ s = <<"-">>
         THEN [ok |-> FALSE, hi |-> 0, lo |-> 0, kind |-> "InvalidDigit"]
         ELSE IF Head(s) = "+"
              THEN ParseDigits(Tail(s), U32Zero)
              ELSE ParseDigits(s, U32Zero)

\* the low limb, left-padded with zeros to the limb's five digits
PadLimb(lo) ==
    LET d == to_string(lo)
    IN  [k \in 1..(5 - Len(d)) |-> "0"] \o d

\* Display of a u32 held as two limbs
U32ToString(hi, lo) ==
    IF hi = 0 THEN to_string(lo) ELSE to_string(hi) \o PadLimb(lo)

(***************************************************************************)
(* Input validator (ui.rs, mod validation)                                 *)
(***************************************************************************)
MAX_FIBONACCI_N == 25

ParseErrorMessage ==
    <<"P", "l", "e", "a", "s", "e", " ", "e", "n", "t", "e", "r", " ", "a", " ", "v", "a", "l", "i", "d", " ", "n", "u", "m", "b", "e", "r">>

RangeErrorHead == <<"N", "u", "m", "b", "e", "r", " ">>

RangeErrorTail ==
    <<" ", "i", "s", " ", "t", "o", "o", " ", "l", "a", "r", "g", "e", "!", " ", "P", "l", "e", "a", "s", "e", " ", "e", "n", "t", "e", "r", " ", "0", "-">>

\* format!("Number {} is too large! Please enter 0-{}", n, MAX_FIBONACCI_N)
RangeErrorMessage(digits) ==
    RangeErrorHead \o digits \o RangeErrorTail \o to_string(MAX_FIBONACCI_N)

\* Result<u32, String>
Ok(n) == [tag |-> "Ok", value |-> n]
Err(msg) == [tag |-> "Err", error |-> msg]
\* no call of validate_input has returned yet
NoResult == [tag |-> "None"]

\* validate_input with the bound excluded (n < MAX_FIBONACCI_N)
validate_input_exclusive(input) ==
    LET p == parse_u32(trim(input))
    IN  IF p.ok /\ p.hi = 0 /\ p.lo < MAX_FIBONACCI_N
        THEN Ok(p.lo)
        ELSE IF p.ok
             THEN Err(RangeErrorMessage(U32ToString(p.hi, p.lo)))
             ELSE Err(ParseErrorMessage)

validate_input(input) ==
    LET p == parse_u32(trim(input))
    IN  IF p.ok /\ p.hi = 0 /\ p.lo <= MAX_FIBONACCI_N
        THEN Ok(p.lo)
        ELSE IF p.ok
             THEN Err(RangeErrorMessage(U32ToString(p.hi, p.lo)))
             ELSE Err(ParseErrorMessage)

\* the characters the enumerated texts are made of
Alphabet == {" ", "0", "1", "2", "5", "6", "+", "-", "a"}

\* texts outside the enumeration: at and around the width of a u32, with
\* other whitespace, with other letters
ExtraTexts ==
    { <<"4", "2", "9", "4", "9", "6", "7", "2", "9", "5">>,
      <<"4", "2", "9", "4", "9", "6", "7", "2", "9", "6">>,
      <<"0", "0", "0", "0", "0", "0", "0", "0", "0", "2", "5">>,
      <<" ", "9", "9", "9", "9", "9", "9", "9", "9", "9", "9", "9", " ">>,
      <<"1", "0", "0", "0", "0", "0">>,
      <<"a", "b", "c">>,
      <<" ", " ", "+", "0", "0", "1", "2", "	">> }

TextsUpTo(len) == UNION { [1..k -> Alphabet] : k \in 0..len }

Texts == TextsUpTo(MaxTextLen) \cup ExtraTexts

ValidatorIdle == v_input = <<>> /\ v_ret = NoResult

\* a caller holding any of the texts, before its call
ValidatorHoldsText == v_input \in Texts /\ v_ret = NoResult

\* validate_input(text), ui.rs:171-180; it may be called again and again
ValidateInputCall ==
    /\ v_ret' = validate_input(v_input)
    /\ UNCHANGED v_input
    /\ UNCHANGED <<engine_vars, app_vars, layout_vars, draw_vars>>

(***************************************************************************)
(* View-model FibonacciApp (app.rs)                                        *)
(***************************************************************************)
\* FibonacciApp::new(), app.rs:22-30 (derive(Default) builds the same value)
new ==
    [input_text |-> <<>>, result_text |-> <<>>,
     fibonacci_sequence |-> <<>>, current_n |-> 0]

\* the view-model of the current state, as the value `self`
Self ==
    [input_text |-> input_text, result_text |-> result_text,
     fibonacci_sequence |-> fibonacci_sequence, current_n |-> current_n]

\* format!("F({}) = {}", n, result)
ResultLine(n, result) ==
    <<"F", "(">> \o to_string(n) \o <<")", " ", "=", " ">> \o to_string(result)

\* calculate_fibonacci whose error branch leaves the sequence and n alone
calculate_fibonacci_keeps_on_error(self) ==
    LET v == validate_input(self.input_text)
    IN  IF v.tag = "Ok"
        THEN [self EXCEPT
                !.result_text = ResultLine(v.value, fib(v.value)),
                !.current_n = v.value,
                !.fibonacci_sequence = generate_sequence_iterative(v.value)]
        ELSE [self EXCEPT !.result_text = v.error]

\* calculate_fibonacci whose error branch leaves current_n as it was
calculate_fibonacci_keeps_n_on_error(self) ==
    LET v == validate_input(self.input_text)
    IN  IF v.tag = "Ok"
        THEN [self EXCEPT
                !.result_text = ResultLine(v.value, fib(v.value)),
                !.current_n = v.value,
                !.fibonacci_sequence = generate_sequence_iterative(v.value)]
        ELSE [self EXCEPT
                !.result_text = v.error,
                !.fibonacci_sequence = <<>>]

\* calculate_fibonacci that extends the old sequence instead of replacing it
calculate_fibonacci_extends(self) ==
    LET v == validate_input(self.input_text)
    IN  IF v.tag = "Ok"
        THEN [self EXCEPT
                !.result_text = ResultLine(v.value, fib(v.value)),
                !.current_n = v.value,
                !.fibonacci_sequence =
                    self.fibonacci_sequence
                        \o generate_sequence_iterative(v.value)]
        ELSE [self EXCEPT
                !.result_text = v.error,
                !.fibonacci_sequence = <<>>,
                !.current_n = 0]

\* FibonacciApp::calculate_fibonacci, app.rs:33-51
calculate_fibonacci(self) ==
    LET v == validate_input(self.input_text)
    IN  IF v.tag = "Ok"
        THEN [self EXCEPT
                !.result_text = ResultLine(v.value, fib(v.value)),
                !.current_n = v.value,
                !.fibonacci_sequence = generate_sequence_iterative(v.value)]
        ELSE [self EXCEPT
                !.result_text = v.error,
                !.fibonacci_sequence = <<>>,
                !.current_n = 0]

\* reset that forgets to clear the result text
reset_keeps_result(self) ==
    [self EXCEPT
        !.input_text = <<>>,
        !.fibonacci_sequence = <<>>,
        !.current_n = 0]

\* FibonacciApp::reset, app.rs:54-59
reset(self) ==
    [self EXCEPT
        !.input_text = <<>>,
        !.result_text = <<>>,
        !.fibonacci_sequence = <<>>,
        !.current_n = 0]

\* FibonacciApp::has_results, app.rs:72-74
has_results(self) ==
    self.fibonacci_sequence # <<>> /\ self.current_n > 0

\* What update() renders between the calculation and the reset button,
\* app.rs:94-112, with the guards of the callees: render_result_text
\* (ui.rs:47), SpiralVisualization::render (ui.rs:99), draw_spiral
\* (visualization.rs:57) and render_math_info (ui.rs:135).
RenderedPanels(self) ==
    (IF self.result_text # <<>> THEN {"result_text"} ELSE {})
    \cup
    (IF has_results(self)
     THEN {"sequence"}
          \cup (IF ~(self.fibonacci_sequence = <<>> \/ self.current_n = 0)
                THEN {"spiral_group"}
                     \cup (IF Len(self.fibonacci_sequence) < 3
                           THEN {} ELSE {"spiral"})
                ELSE {})
          \cup (IF Len(self.fibonacci_sequence) >= 2 /\ self.current_n > 1
                THEN \* fibonacci_sequence[current_n] and [current_n - 1],
                     \* ui.rs:142-143; an index past the end panics
                     IF self.current_n + 1 <= Len(self.fibonacci_sequence)
                     THEN {"math_info"} ELSE {"math_info_panic"}
                ELSE {})
     ELSE {})

\* the statistics label next to the reset button, app.rs:126-135
RenderedStatistics(self) ==
    IF has_results(self) THEN {"statistics"} ELSE {}

\* One frame of update(), app.rs:78-137: the text field holds `text` after
\* InputControls::render, should_calculate tells whether the button or
\* Enter fired, reset_clicked whether the reset button did.
Frame(text, should_calculate, reset_clicked) ==
    LET edited == [Self EXCEPT !.input_text = text]
    IN  \E calculated \in { IF should_calculate
                            THEN calculate_fibonacci(edited) ELSE edited } :
        \E final \in { IF reset_clicked
                       THEN reset(calculated) ELSE calculated } :
            /\ input_text' = final.input_text
            /\ result_text' = final.result_text
            /\ fibonacci_sequence' = final.fibonacci_sequence
            /\ current_n' = final.current_n
            /\ rendered' = RenderedPanels(calculated)
                                \cup RenderedStatistics(final)
            /\ prev_has_results' = has_results(Self)
            /\ last_event' = IF reset_clicked THEN "reset"
                             ELSE IF should_calculate THEN "calculate"
                             ELSE "edit"

\* texts that are not the plain decimal form of a small number
OddTexts ==
    { <<>>,
      <<" ", "5", " ">>,
      <<"a", "b", "c">>,
      <<"-", "1">>,
      <<"+", "7">>,
      <<"4", "2", "9", "4", "9", "6", "7", "2", "9", "6">> }

AppTexts == { to_string(n) : n \in 0..MaxInputN } \cup OddTexts

AppNew ==
    /\ input_text = new.input_text
    /\ result_text = new.result_text
    /\ fibonacci_sequence = new.fibonacci_sequence
    /\ current_n = new.current_n
    /\ last_event = "new" /\ prev_has_results = FALSE /\ rendered = {}

\* a frame in which the user types (or leaves the text as it is)
EditInput ==
    /\ \E t \in AppTexts : Frame(t, FALSE, FALSE)
    /\ UNCHANGED <<engine_vars, validator_vars, layout_vars, draw_vars>>

\* a frame in which "Generate Spiral" is clicked or Enter is pressed
Calculate ==
    /\ Frame(input_text, TRUE, FALSE)
    /\ UNCHANGED <<engine_vars, validator_vars, layout_vars, draw_vars>>

\* a frame in which "Reset" is clicked
Reset ==
    /\ Frame(input_text, FALSE, TRUE)
    /\ UNCHANGED <<engine_vars, validator_vars, layout_vars, draw_vars>>

\* a frame in which Enter fires the calculation and "Reset" is clicked
CalculateThenReset ==
    /\ Frame(input_text, TRUE, TRUE)
    /\ UNCHANGED <<engine_vars, validator_vars, layout_vars, draw_vars>>

(***************************************************************************)
(* Spiral layout calculator (visualization.rs).  Lengths and coordinates   *)
(* are f32 in the code; here they are fixed-point numbers, integers        *)
(* counting 1/Fx of a pixel, and divisions round towards minus infinity.   *)
(***************************************************************************)
Fx == 100

Min2(a, b) == IF a <= b THEN a ELSE b
Max2(a, b) == IF a >= b THEN a ELSE b

\* the r in lo..hi-1 with r * r <= x < (r + 1) * (r + 1),
\* given lo * lo <= x < hi * hi
RECURSIVE ISqrtSearch(_, _, _)
ISqrtSearch(x, lo, hi) ==
    IF hi - lo <= 1 THEN lo
    ELSE LET mid == (lo + hi) \div 2
         IN  IF mid * mid <= x
             THEN ISqrtSearch(x, mid, hi)
             ELSE ISqrtSearch(x, lo, mid)

\* (value as f32).sqrt(), in 1/Fx
SqrtFx(value) == ISqrtSearch(value * Fx * Fx, 0, 46341)

\* egui Rect::from_min_size(Pos2::new(x, y), Vec2::new(w, h))
RectFromMinSize(x, y, w, h) ==
    [min_x |-> x, min_y |-> y, width |-> w, height |-> h]

RectMaxX(r) == r.min_x + r.width
RectMaxY(r) == r.min_y + r.height

\* the largest element, fibonacci_sequence.iter().max().unwrap_or(&1)
MaxOf(seq) ==
    IF seq = <<>> THEN 1
    ELSE CHOOSE m \in { seq[k] : k \in 1..Len(seq) } :
            \A k \in 1..Len(seq) : seq[k] <= m

\* visualization.rs:86-88: the scale unit for a viewport and a sequence
MinUnitSize == 20 * Fx
UnitCeiling == 35 * Fx

UnitFor(rect, seq) ==
    LET available_size == Min2(rect.width, rect.height) \div 2
        max_unit_size == (available_size * Fx) \div SqrtFx(MaxOf(seq))
    IN  Max2(MinUnitSize, Min2(max_unit_size, UnitCeiling))

\* (value as f32).sqrt() * unit * 1.2
SizeOf(value, u) == (SqrtFx(value) * u * 12) \div (10 * Fx)

\* the exclusive end of the layout loop without the cap of 12 terms
LoopEndUncapped(seq) == Len(seq)

\* the exclusive end of `for i in 2..fibonacci_sequence.len().min(12)`
LoopEnd(seq) == Min2(Len(seq), 12)

\* the viewports the spiral is laid out in: 600 x 400 as allocated by
\* SpiralVisualization::render, at several origins, and a tall one
Viewports ==
    { RectFromMinSize(0, 0, 600 * Fx, 400 * Fx),
      RectFromMinSize(8 * Fx, 120 * Fx, 600 * Fx, 400 * Fx),
      RectFromMinSize(15 * Fx + 50, 33 * Fx + 25, 300 * Fx, 500 * Fx) }

\* the sequences laid out: the empty one and those the view-model builds
LayoutSequences ==
    {<<>>} \cup { generate_sequence_iterative(n) : n \in 0..MAX_FIBONACCI_N }

LayoutIdle ==
    /\ lay_pc = "idle" /\ lay_rect = RectFromMinSize(0, 0, 0, 0)
    /\ lay_sequence = <<>> /\ lay_i = 0 /\ unit = 0
    /\ temp_rectangles = <<>>
    /\ current_width = 0 /\ current_height = 0 /\ base_x = 0 /\ base_y = 0
    /\ rectangles = <<>>

\* calculate_spiral_rectangles, visualization.rs:73-106: the early return,
\* the unit, the two seed squares and the initial box
LayoutBegin ==
    /\ lay_pc = "idle"
    /\ \E rect \in Viewports, seq \in LayoutSequences :
        /\ lay_rect' = rect
        /\ lay_sequence' = seq
        /\ IF Len(seq) < 3
           THEN /\ rectangles' = <<>>
                /\ lay_pc' = "done"
                /\ UNCHANGED <<lay_i, unit, temp_rectangles, current_width,
                               current_height, base_x, base_y>>
           ELSE LET u == UnitFor(rect, seq)
                    first_size == SizeOf(1, u)
                    rect1 == RectFromMinSize(0, 0, first_size, first_size)
                    rect2 == RectFromMinSize(first_size, 0,
                                             first_size, first_size)
                IN  /\ unit' = u
                    /\ temp_rectangles' =
                          << [rect |-> rect1, value |-> 1, index |-> 0],
                             [rect |-> rect2, value |-> 1, index |-> 1] >>
                    /\ current_width' = first_size * 2
                    /\ current_height' = first_size
                    /\ base_x' = 0
                    /\ base_y' = 0
                    /\ lay_i' = 2
                    /\ lay_pc' = "loop"
                    /\ UNCHANGED rectangles
    /\ UNCHANGED <<engine_vars, validator_vars, app_vars, draw_vars>>

\* the placement whose "left" case forgets to move base_x
PlacementLeftKeepsBase(direction_idx, size) ==
    CASE direction_idx = 0 ->
            [rect |-> RectFromMinSize(base_x, base_y + current_height,
                                      current_width, size),
             base_x |-> base_x, base_y |-> base_y,
             width |-> current_width, height |-> current_height + size]
      [] direction_idx = 1 ->
            [rect |-> RectFromMinSize(base_x - size, base_y,
                                      size, current_height),
             base_x |-> base_x, base_y |-> base_y,
             width |-> current_width + size, height |-> current_height]
      [] direction_idx = 2 ->
            [rect |-> RectFromMinSize(base_x, base_y - size,
                                      current_width, size),
             base_x |-> base_x, base_y |-> base_y - size,
             width |-> current_width, height |-> current_height + size]
      [] direction_idx = 3 ->
            [rect |-> RectFromMinSize(base_x + current_width, base_y,
                                      size, current_height),
             base_x |-> base_x, base_y |-> base_y,
             width |-> current_width + size, height |-> current_height]

\* the placement whose "right" case starts at base_x + size
PlacementRightInside(direction_idx, size) ==
    CASE direction_idx = 0 ->
            [rect |-> RectFromMinSize(base_x, base_y + current_height,
                                      current_width, size),
             base_x |-> base_x, base_y |-> base_y,
             width |-> current_width, height |-> current_height + size]
      [] direction_idx = 1 ->
            [rect |-> RectFromMinSize(base_x - size, base_y,
                                      size, current_height),
             base_x |-> base_x - size, base_y |-> base_y,
             width |-> current_width + size, height |-> current_height]
      [] direction_idx = 2 ->
            [rect |-> RectFromMinSize(base_x, base_y - size,
                                      current_width, size),
             base_x |-> base_x, base_y |-> base_y - size,
             width |-> current_width, height |-> current_height + size]
      [] direction_idx = 3 ->
            [rect |-> RectFromMinSize(base_x + size, base_y,
                                      size, current_height),
             base_x |-> base_x, base_y |-> base_y,
             width |-> current_width + size, height |-> current_height]

\* the match on direction_idx, visualization.rs:115-149: the new rectangle
\* and the new box (base_x, base_y, width, height)
Placement(direction_idx, size) ==
    CASE direction_idx = 0 ->       \* down
            [rect |-> RectFromMinSize(base_x, base_y + current_height,
                                      current_width, size),
             base_x |-> base_x, base_y |-> base_y,
             width |-> current_width, height |-> current_height + size]
      [] direction_idx = 1 ->       \* left
            [rect |-> RectFromMinSize(base_x - size, base_y,
                                      size, current_height),
             base_x |-> base_x - size, base_y |-> base_y,
             width |-> current_width + size, height |-> current_height]
      [] direction_idx = 2 ->       \* up
            [rect |-> RectFromMinSize(base_x, base_y - size,
                                      current_width, size),
             base_x |-> base_x, base_y |-> base_y - size,
             width |-> current_width, height |-> current_height + size]
      [] direction_idx = 3 ->       \* right
            [rect |-> RectFromMinSize(base_x + current_width, base_y,
                                      size, current_height),
             base_x |-> base_x, base_y |-> base_y,
             width |-> current_width + size, height |-> current_height]

\* one iteration of the loop, visualization.rs:108-156
LayoutStep ==
    /\ lay_pc = "loop"
    /\ lay_i < LoopEnd(lay_sequence)
    /\ LET fib_val == lay_sequence[lay_i + 1]
           size == SizeOf(fib_val, unit)
           placed == Placement((lay_i - 2) % 4, size)
       IN  /\ temp_rectangles' =
                 Append(temp_rectangles,
                        [rect |-> placed.rect, value |-> fib_val,
                         index |-> lay_i])
           /\ base_x' = placed.base_x
           /\ base_y' = placed.base_y
           /\ current_width' = placed.width
           /\ current_height' = placed.height
    /\ lay_i' = lay_i + 1
    /\ UNCHANGED <<lay_pc, lay_rect, lay_sequence, unit, rectangles>>
    /\ UNCHANGED <<engine_vars, validator_vars, app_vars, draw_vars>>

\* f32::min / f32::max folded over the rectangles, from +-infinity
SetMin(S) == CHOOSE m \in S : \A x \in S : m <= x
SetMax(S) == CHOOSE m \in S : \A x \in S : m >= x

\* the centering that aligns the box's min corner, not its center, with the
\* viewport's center
CenteredByCorner(rect, temps) ==
    LET idx == 1..Len(temps)
        min_x == SetMin({ temps[k].rect.min_x : k \in idx })
        min_y == SetMin({ temps[k].rect.min_y : k \in idx })
        center_x == rect.min_x + rect.width \div 2
        center_y == rect.min_y + rect.height \div 2
        offset_x == center_x - min_x
        offset_y == center_y - min_y
    IN  [ k \in idx |->
            [rect |-> RectFromMinSize(temps[k].rect.min_x + offset_x,
                                      temps[k].rect.min_y + offset_y,
                                      temps[k].rect.width,
                                      temps[k].rect.height),
             value |-> temps[k].value,
             index |-> temps[k].index] ]

\* visualization.rs:158-192: the bounding box of the temporary rectangles
\* and the rectangles moved by the centering offset
Centered(rect, temps) ==
    LET idx == 1..Len(temps)
        min_x == SetMin({ temps[k].rect.min_x : k \in idx })
        min_y == SetMin({ temps[k].rect.min_y : k \in idx })
        max_x == SetMax({ RectMaxX(temps[k].rect) : k \in idx })
        max_y == SetMax({ RectMaxY(temps[k].rect) : k \in idx })
        spiral_width == max_x - min_x
        spiral_height == max_y - min_y
        center_x == rect.min_x + rect.width \div 2
        center_y == rect.min_y + rect.height \div 2
        offset_x == center_x - (min_x + spiral_width \div 2)
        offset_y == center_y - (min_y + spiral_height \div 2)
    IN  [ k \in idx |->
            [rect |-> RectFromMinSize(temps[k].rect.min_x + offset_x,
                                      temps[k].rect.min_y + offset_y,
                                      temps[k].rect.width,
                                      temps[k].rect.height),
             value |-> temps[k].value,
             index |-> temps[k].index] ]

\* the loop is exhausted: center and return, visualization.rs:158-195
LayoutCenter ==
    /\ lay_pc = "loop"
    /\ lay_i >= LoopEnd(lay_sequence)
    /\ rectangles' = Centered(lay_rect, temp_rectangles)
    /\ lay_pc' = "done"
    /\ UNCHANGED <<lay_rect, lay_sequence, lay_i, unit, temp_rectangles,
                   current_width, current_height, base_x, base_y>>
    /\ UNCHANGED <<engine_vars, validator_vars, app_vars, draw_vars>>

\* the caller takes the rectangles; nothing is kept between calls
LayoutFinish ==
    /\ lay_pc = "done"
    /\ lay_pc' = "idle" /\ lay_rect' = RectFromMinSize(0, 0, 0, 0)
    /\ lay_sequence' = <<>> /\ lay_i' = 0 /\ unit' = 0
    /\ temp_rectangles' = <<>>
    /\ current_width' = 0 /\ current_height' = 0
    /\ base_x' = 0 /\ base_y' = 0
    /\ rectangles' = <<>>
    /\ UNCHANGED <<engine_vars, validator_vars, app_vars, draw_vars>>

(***************************************************************************)
(* Fibonacci engine, continued: is_fibonacci_number (fibonacci.rs:84-92)  *)
(***************************************************************************)
\* is_perfect_square that only compares sqrt * sqrt <= n
is_perfect_square_at_most(n) ==
    LET sqrt == ISqrtSearch(n, 0, 46341)
    IN  sqrt * sqrt <= n

\* is_perfect_square(n): (n as f64).sqrt() as u64 is the integer part of
\* the square root, exactly so for the n the model reaches (n < 2^31)
is_perfect_square(n) ==
    LET sqrt == ISqrtSearch(n, 0, 46341)
    IN  sqrt * sqrt = n

\* `a | b`: the right operand is evaluated whatever the left one is
RightOperandAlways(left) == TRUE

\* `a || b`: the right operand is evaluated only when the left one is false
RightOperandEvaluated(left) == ~left

\* is_fibonacci_number(num): the left operand of `||`
IsFibonacciNumberBegin ==
    /\ pc = "idle"
    /\ \E num \in 0..IsFibMaxX :
        /\ fn' = "is_fibonacci_number" /\ arg_n' = num
        /\ LET left == is_perfect_square(5 * num * num + 4)
           IN  IF RightOperandEvaluated(left)
               THEN pc' = "second" /\ ret' = left
               ELSE pc' = "done" /\ ret' = left
    /\ UNCHANGED <<loop_i, sequence, memo, underflowed>>
    /\ UNCHANGED <<validator_vars, app_vars, layout_vars, draw_vars>>

\* the right operand, is_perfect_square(5 * num * num - 4).  A subtraction
\* below zero panics in a build with overflow checks and wraps to
\* 2^64 - (4 - 5 * num * num) otherwise, which is no perfect square.
IsFibonacciNumberSecond ==
    /\ pc = "second" /\ fn = "is_fibonacci_number"
    /\ IF 5 * arg_n * arg_n < 4
       THEN /\ underflowed' = TRUE
            /\ \/ pc' = "panic" /\ UNCHANGED ret
               \/ pc' = "done" /\ ret' = ret
       ELSE /\ pc' = "done"
            /\ ret' = (ret \/ is_perfect_square(5 * arg_n * arg_n - 4))
            /\ UNCHANGED underflowed
    /\ UNCHANGED <<fn, arg_n, loop_i, sequence, memo>>
    /\ UNCHANGED <<validator_vars, app_vars, layout_vars, draw_vars>>

(***************************************************************************)
(* Label drawing: draw_rectangles (visualization.rs:198-262)               *)
(***************************************************************************)
\* fib_rect.rect.width().min(fib_rect.rect.height()), visualization.rs:207
min_dimension(r) == Min2(r.width, r.height)

\* the ladder with inclusive comparisons
TextSizeInclusive(d) ==
    IF d >= 80 * Fx THEN 20
    ELSE IF d >= 60 * Fx THEN 16
    ELSE IF d >= 40 * Fx THEN 14
    ELSE IF d >= 25 * Fx THEN 12
    ELSE 10

\* the if / else-if ladder of visualization.rs:208-218, d in 1/Fx pixels,
\* the result in points
TextSize(d) ==
    IF d > 80 * Fx THEN 20
    ELSE IF d > 60 * Fx THEN 16
    ELSE IF d > 40 * Fx THEN 14
    ELSE IF d > 25 * Fx THEN 12
    ELSE 10

\* the widths and heights drawn: whole pixels up to DrawMaxPx and the
\* lengths next to the thresholds of the ladder
DrawDims ==
    { p * Fx : p \in 1..DrawMaxPx }
        \cup { b * Fx + e : b \in {25, 40, 60, 80}, e \in {-1, 1} }

DrawIdle ==
    /\ draw_rect = RectFromMinSize(0, 0, 0, 0) /\ text_size = 0

DrawHoldsRect ==
    /\ draw_rect \in { RectFromMinSize(0, 0, w, h) : w, h \in DrawDims }
    /\ text_size = 0

\* one iteration of the loop: the font size of the label
DrawRectangleLabel ==
    /\ text_size = 0 /\ draw_rect.width > 0
    /\ text_size' = TextSize(min_dimension(draw_rect))
    /\ UNCHANGED draw_rect
    /\ UNCHANGED <<engine_vars, validator_vars, app_vars, layout_vars>>

(***************************************************************************)
(* Specifications                                                          *)
(***************************************************************************)
Init == EngineIdle /\ ValidatorIdle /\ AppNew /\ LayoutIdle /\ DrawIdle

\* the view-model under user events
Next == EditInput \/ Calculate \/ Reset \/ CalculateThenReset

Spec == Init /\ [][Next]_vars

\* calls of the Fibonacci engine
NextEngine ==
    \/ FibCall
    \/ FibMemoizedCall
    \/ GenerateSequenceBegin
    \/ GenerateSequenceStep
    \/ GenerateSequenceReturn
    \/ GenerateSequenceIterativeBegin
    \/ GenerateSequenceIterativeStep
    \/ GenerateSequenceIterativeReturn
    \/ IsFibonacciNumberBegin
    \/ IsFibonacciNumberSecond
    \/ EngineFinish

SpecEngine == Init /\ [][NextEngine]_vars

\* calls of the validator
NextValidator == ValidateInputCall

InitValidator ==
    EngineIdle /\ ValidatorHoldsText /\ AppNew /\ LayoutIdle /\ DrawIdle

SpecValidator == InitValidator /\ [][NextValidator]_vars

\* calls of the layout calculator
NextLayout == LayoutBegin \/ LayoutStep \/ LayoutCenter \/ LayoutFinish

SpecLayout == Init /\ [][NextLayout]_vars

\* iterations of the label loop of draw_rectangles
NextDraw == DrawRectangleLabel

InitDraw ==
    EngineIdle /\ ValidatorIdle /\ AppNew /\ LayoutIdle /\ DrawHoldsRect

SpecDraw == InitDraw /\ [][NextDraw]_vars

(***************************************************************************)
(* Properties of the Fibonacci engine, checked under SpecEngine            *)
(***************************************************************************)
\* C1: whenever fib_memoized(n) has returned, for any n in 0..FibMaxN, its
\* value is the value of the naive recursion fib(n).
FibMemoizedEqualsFib ==
    (pc = "done" /\ fn = "fib_memoized") => ret = fib(arg_n)

\* fib_memoized(20) has returned 6765
FibMemoizedReturned ==
    pc = "done" /\ fn = "fib_memoized" /\ arg_n = 20 /\ ret = 6765

\* C2: whenever generate_sequence(n) or generate_sequence_iterative(n) has
\* returned, the sequence has length n + 1 and element i is fib(i) for
\* every i in 0..n; n = 0 gives [0] and n = 1 gives [0, 1].
GeneratorsReturnFibSequence ==
    (pc = "done" /\ fn \in {"generate_sequence", "generate_sequence_iterative"})
        => /\ Len(ret) = arg_n + 1
           /\ \A i \in 0..arg_n : ret[i + 1] = fib(i)
           /\ (arg_n = 0 => ret = <<0>>)
           /\ (arg_n = 1 => ret = <<0, 1>>)
           /\ (fn = "generate_sequence_iterative"
                  => ret = generate_sequence_iterative(arg_n))

\* generate_sequence_iterative(5) has returned [0, 1, 1, 2, 3, 5]
IterativeReturned ==
    /\ pc = "done" /\ fn = "generate_sequence_iterative" /\ arg_n = 5
    /\ ret = <<0, 1, 1, 2, 3, 5>>

(***************************************************************************)
(* Properties of the validator, checked under SpecValidator.  The text     *)
(* forms are described here without the validator's own operators.         *)
(***************************************************************************)
\* the text without its leading and trailing whitespace
TrimmedForm(t) ==
    LET keep == { k \in 1..Len(t) : t[k] \notin Whitespace }
    IN  IF keep = {} THEN <<>>
        ELSE SubSeq(t, CHOOSE k \in keep : \A j \in keep : k <= j,
                       CHOOSE k \in keep : \A j \in keep : k >= j)

\* the digits of a numeral: the text without one leading plus sign
NumeralBody(s) == IF s # <<>> /\ s[1] = "+" THEN Tail(s) ELSE s

\* s is the decimal notation of a non-negative integer
IsUnsignedNumeral(s) ==
    /\ NumeralBody(s) # <<>>
    /\ \A k \in 1..Len(NumeralBody(s)) : IsDigit(NumeralBody(s)[k])

\* the digits from the first non-zero digit on; empty for zero
SignificantDigits(s) ==
    LET body == NumeralBody(s)
        nonzero == { k \in 1..Len(body) : body[k] # "0" }
    IN  IF nonzero = {} THEN <<>>
        ELSE SubSeq(body, CHOOSE k \in nonzero : \A j \in nonzero : k <= j,
                          Len(body))

\* the canonical decimal notation of the numeral's value
CanonicalDigits(s) ==
    IF SignificantDigits(s) = <<>> THEN <<"0">> ELSE SignificantDigits(s)

RECURSIVE Pow10(_)
Pow10(k) == IF k = 0 THEN 1 ELSE 10 * Pow10(k - 1)

\* the value of a numeral of at most two significant digits
SmallNumeralValue(s) ==
    LET sig == SignificantDigits(s)
        at(k) == CHOOSE d \in 0..9 : DigitChars[d + 1] = sig[k]
    IN  IF sig = <<>> THEN 0
        ELSE IF Len(sig) = 1 THEN at(1)
        ELSE at(1) * Pow10(1) + at(2)

\* the numeral's value is at most 25
NumeralAtMost25(s) ==
    Len(SignificantDigits(s)) <= 2 /\ SmallNumeralValue(s) <= 25

\* e is "Number <digits> is too large! Please enter 0-25"
IsRangeErrorText(e) ==
    LET tail == RangeErrorTail \o <<"2", "5">>
        from == Len(RangeErrorHead) + 1
        to == Len(e) - Len(tail)
    IN  /\ to >= from
        /\ SubSeq(e, 1, Len(RangeErrorHead)) = RangeErrorHead
        /\ SubSeq(e, to + 1, Len(e)) = tail
        /\ \A k \in from..to : IsDigit(e[k])

\* C3: validate_input(text) is Ok(n) exactly when the trimmed text is the
\* notation of an unsigned integer of value n <= 25, n is that value, and
\* the call leaves the view-model as it was.
ValidateAcceptsExactlyUpTo25 ==
    v_ret.tag # "None" =>
        LET s == TrimmedForm(v_input)
            accepted == IsUnsignedNumeral(s) /\ NumeralAtMost25(s)
        IN  /\ (v_ret.tag = "Ok") <=> accepted
            /\ accepted => v_ret = Ok(SmallNumeralValue(s))
            /\ Self = new

\* validate_input(" 5 ") has returned Ok(5)
ValidateAcceptedTrimmed ==
    v_input = <<" ", "5", " ">> /\ v_ret = Ok(5)

\* C4: for every text whose trimmed form is a non-negative integer above
\* 25, validate_input fails with the range error naming the value and the
\* bound 25, never with the parse error.
ValidateRangeErrorAbove25 ==
    v_ret.tag # "None" =>
        LET s == TrimmedForm(v_input)
        IN  (IsUnsignedNumeral(s) /\ ~NumeralAtMost25(s))
                => /\ v_ret.tag = "Err"
                   /\ v_ret.error = RangeErrorHead \o CanonicalDigits(s)
                                        \o RangeErrorTail \o <<"2", "5">>
                   /\ v_ret.error # ParseErrorMessage

\* C5: for every text whose trimmed form is not a non-negative integer,
\* validate_input fails with the parse error message; every failure is
\* either the parse error or a range error, never both.
ValidateParseErrorForNonNumbers ==
    v_ret.tag # "None" =>
        LET s == TrimmedForm(v_input)
        IN  /\ ~IsUnsignedNumeral(s) => v_ret = Err(ParseErrorMessage)
            /\ v_ret.tag = "Err"
                  => (v_ret.error = ParseErrorMessage)
                         # IsRangeErrorText(v_ret.error)
            /\ v_ret.tag \in {"Ok", "Err"}

\* validate_input("-1") has failed with the parse error
ValidateRejectedNegative ==
    v_input = <<"-", "1">> /\ v_ret = Err(ParseErrorMessage)

(***************************************************************************)
(* Properties of the view-model, checked under Spec.  A frame does not     *)
(* change the text it calculates from, so after a "calculate" frame        *)
(* input_text is the text that was validated.                              *)
(***************************************************************************)
\* the panels that show a sequence or depend on one
DownstreamPanels ==
    {"spiral_group", "spiral", "sequence", "math_info", "statistics"}

\* C6: after calculate_fibonacci ran on a text that fails validation, from
\* any prior state, the view-model holds the validator's error message, an
\* empty sequence and current_n = 0; has_results() is false and the frame
\* rendered no sequence and no visualization.
CalculateInvalidClears ==
    (last_event = "calculate" /\ validate_input(input_text).tag = "Err")
        => /\ result_text = validate_input(input_text).error
           /\ result_text = ParseErrorMessage \/ IsRangeErrorText(result_text)
           /\ fibonacci_sequence = <<>>
           /\ current_n = 0
           /\ ~has_results(Self)
           /\ rendered \cap DownstreamPanels = {}

\* "abc" was calculated in a state that showed a result
CalculatedInvalidOverResult ==
    /\ last_event = "calculate" /\ prev_has_results
    /\ input_text = <<"a", "b", "c">>
    /\ result_text = ParseErrorMessage
    /\ fibonacci_sequence = <<>>

\* C7: after calculate_fibonacci ran, if the text validates (to any n in
\* 0..25) the sequence is generated, has_results() is true and the frame
\* rendered the spiral visualization and the sequence list; if it does not
\* validate, the frame rendered nothing downstream.
CalculateRunsFullPipeline ==
    last_event = "calculate" =>
        IF validate_input(input_text).tag = "Ok"
        THEN /\ fibonacci_sequence # <<>>
             /\ has_results(Self)
             /\ {"spiral_group", "sequence"} \subseteq rendered
        ELSE rendered \cap DownstreamPanels = {}

\* C8: after calculate_fibonacci succeeded with index n, from any prior
\* state, current_n = n, the sequence is exactly F(0..=n) and the result
\* text is "F(n) = v" with v = fib(n) = the last element of the sequence.
CalculateValidReplaces ==
    LET s == TrimmedForm(input_text)
    IN  (last_event = "calculate" /\ IsUnsignedNumeral(s) /\ NumeralAtMost25(s))
            => LET n == SmallNumeralValue(s)
               IN  /\ current_n = n
                   /\ Len(fibonacci_sequence) = n + 1
                   /\ \A i \in 0..n : fibonacci_sequence[i + 1] = fib(i)
                   /\ fibonacci_sequence[Len(fibonacci_sequence)] = fib(n)
                   /\ result_text = <<"F", "(">> \o CanonicalDigits(s)
                                        \o <<")", " ", "=", " ">>
                                        \o to_string(fib(n))

\* "10" was calculated in a state that showed another result
CalculatedValidOverResult ==
    /\ last_event = "calculate" /\ prev_has_results
    /\ input_text = <<"1", "0">>
    /\ current_n = 10
    /\ Len(fibonacci_sequence) = 11
    /\ result_text = <<"F", "(", "1", "0", ")", " ", "=", " ", "5", "5">>

\* C9: after reset(), from any reachable state, the view-model equals the
\* freshly created one and has_results() is false.
ResetRestoresNew ==
    last_event = "reset" => (Self = new /\ ~has_results(Self))

\* reset was clicked in a state that showed a result
ResetOverResult ==
    last_event = "reset" /\ prev_has_results /\ Self = new

(***************************************************************************)
(* Properties of the layout calculator, checked under SpecLayout           *)
(***************************************************************************)
\* C10: when calculate_spiral_rectangles has returned, the result is empty
\* if the sequence has fewer than 3 terms, and otherwise has exactly
\* min(len, 12) rectangles with indices 0, 1, ... in that order; the
\* sequence passed in is still one of the sequences as they were built.
LayoutOneRectanglePerTermUpTo12 ==
    lay_pc = "done" =>
        /\ Len(lay_sequence) < 3 => rectangles = <<>>
        /\ Len(lay_sequence) >= 3 =>
              /\ Len(rectangles) = Min2(Len(lay_sequence), 12)
              /\ Len(rectangles) <= 12
              /\ \A k \in 1..Len(rectangles) : rectangles[k].index = k - 1
        /\ lay_sequence \in LayoutSequences

\* a sequence of 26 terms has been laid out as 12 rectangles
LayoutCappedReturned ==
    /\ lay_pc = "done" /\ Len(lay_sequence) = 26
    /\ Len(rectangles) = 12 /\ rectangles[12].index = 11

\* the axis-aligned bounding box of a non-empty list of rectangles
BoundingBox(rs) ==
    [min_x |-> SetMin({ rs[k].rect.min_x : k \in 1..Len(rs) }),
     min_y |-> SetMin({ rs[k].rect.min_y : k \in 1..Len(rs) }),
     max_x |-> SetMax({ rs[k].rect.min_x + rs[k].rect.width : k \in 1..Len(rs) }),
     max_y |-> SetMax({ rs[k].rect.min_y + rs[k].rect.height : k \in 1..Len(rs) })]

Abs(a) == IF a < 0 THEN -a ELSE a

\* C11: when the layout of a sequence of 3 or more terms has returned, the
\* center of the bounding box of the returned rectangles is within 1px of
\* the viewport's center, and the returned rectangles are the placed ones
\* moved by one common offset, each with its width and height unchanged.
LayoutCenteredByTranslation ==
    (lay_pc = "done" /\ Len(lay_sequence) >= 3) =>
        LET box == BoundingBox(rectangles)
            dx == rectangles[1].rect.min_x - temp_rectangles[1].rect.min_x
            dy == rectangles[1].rect.min_y - temp_rectangles[1].rect.min_y
        IN  /\ Abs((box.min_x + box.max_x)
                     - (2 * lay_rect.min_x + lay_rect.width)) <= 2 * Fx
            /\ Abs((box.min_y + box.max_y)
                     - (2 * lay_rect.min_y + lay_rect.height)) <= 2 * Fx
            /\ Len(rectangles) = Len(temp_rectangles)
            /\ \A k \in 1..Len(rectangles) :
                  /\ rectangles[k].rect.min_x
                        = temp_rectangles[k].rect.min_x + dx
                  /\ rectangles[k].rect.min_y
                        = temp_rectangles[k].rect.min_y + dy
                  /\ rectangles[k].rect.width = temp_rectangles[k].rect.width
                  /\ rectangles[k].rect.height = temp_rectangles[k].rect.height

\* [0, 1, 1, 2, 3, 5] has been laid out in the 600 x 400 viewport at the
\* origin as 6 rectangles that were moved to the right and down
LayoutSixCentered ==
    /\ lay_pc = "done" /\ lay_sequence = <<0, 1, 1, 2, 3, 5>>
    /\ lay_rect = RectFromMinSize(0, 0, 600 * Fx, 400 * Fx)
    /\ Len(rectangles) = 6
    /\ rectangles[1].rect.min_x > temp_rectangles[1].rect.min_x
    /\ rectangles[1].rect.min_y > temp_rectangles[1].rect.min_y

(***************************************************************************)
(* Properties of is_fibonacci_number, checked under SpecEngine             *)
(***************************************************************************)
\* x occurs in the sequence a, b, a + b, ...
RECURSIVE OccursFrom(_, _, _)
OccursFrom(a, b, x) == IF a >= x THEN a = x ELSE OccursFrom(b, a + b, x)

\* x is a Fibonacci number
IsFibonacciValue(x) == OccursFrom(0, 1, x)

\* y is the square of a natural number
IsSquare(y) == \E r \in 0..(3 * IsFibMaxX + 3) : r * r = y

\* C12: whenever is_fibonacci_number(x) has returned, for any x in
\* 0..IsFibMaxX, it is true exactly when x is a Fibonacci number, which is
\* exactly when 5x^2+4 or 5x^2-4 is a perfect square; up to 55 it is true
\* for 0, 1, 2, 3, 5, 8, 13, 21, 34, 55 and for nothing else.
IsFibonacciNumberExact ==
    (fn = "is_fibonacci_number" /\ pc = "done") =>
        /\ ret <=> IsFibonacciValue(arg_n)
        /\ ret <=> (IsSquare(5 * arg_n * arg_n + 4)
                       \/ IsSquare(5 * arg_n * arg_n - 4))
        /\ arg_n <= 55 => (ret <=> arg_n \in {0, 1, 2, 3, 5, 8, 13, 21, 34, 55})

\* is_fibonacci_number(55) has returned true
IsFibonacciNumberOf55 ==
    fn = "is_fibonacci_number" /\ pc = "done" /\ arg_n = 55 /\ ret = TRUE

\* C19: no call of is_fibonacci_number evaluates a subtraction below zero:
\* for x = 0 the right operand is never evaluated, and whenever it is
\* evaluated x >= 1 and 5x^2 - 4 >= 1.
IsFibonacciNumberNoUnderflow ==
    /\ ~underflowed
    /\ pc # "panic"
    /\ (fn = "is_fibonacci_number" /\ pc = "second")
          => (arg_n >= 1 /\ 5 * arg_n * arg_n - 4 >= 1)

\* is_fibonacci_number(0) has returned true without an underflow
IsFibonacciNumberOfZero ==
    /\ fn = "is_fibonacci_number" /\ pc = "done" /\ arg_n = 0
    /\ ret = TRUE /\ ~underflowed

\* C13: every returned rectangle carries the value of the sequence term at
\* its index, the two seed squares included.
LayoutValueIsSequenceTerm ==
    lay_pc = "done" =>
        \A k \in 1..Len(rectangles) :
            rectangles[k].value = lay_sequence[rectangles[k].index + 1]

\* C14: for every sequence of 3 or more terms the view-model passes and the
\* 600 x 400 viewport, the largest term's rectangle side, sqrt(value) *
\* unit * 1.2 with the unit chosen, is at most half the smaller viewport
\* dimension.
LayoutLargestTermFits ==
    (/\ lay_pc \in {"loop", "done"} /\ Len(lay_sequence) >= 3
     /\ lay_rect.width = 600 * Fx /\ lay_rect.height = 400 * Fx)
        => SizeOf(MaxOf(lay_sequence), unit)
              <= Min2(lay_rect.width, lay_rect.height) \div 2

\* C15: after every placement step, the rectangle placed last, of index i
\* in 2..min(len, 12) - 1, lies flush against the bounding box of the
\* rectangles before it, on the side (i - 2) mod 4 in the order down, left,
\* up, right, and spans that side exactly; and the tracked box (base_x,
\* base_y, current_width, current_height) is the bounding box of all the
\* rectangles placed so far.
LayoutPlacedFlushOnCyclingSide ==
    (lay_pc \in {"loop", "done"} /\ Len(temp_rectangles) >= 3) =>
        LET n == Len(temp_rectangles)
            last == temp_rectangles[n].rect
            i == temp_rectangles[n].index
            before == BoundingBox(SubSeq(temp_rectangles, 1, n - 1))
            all == BoundingBox(temp_rectangles)
            side == (i - 2) % 4
        IN  /\ i = n - 1
            /\ i >= 2 /\ i <= Min2(Len(lay_sequence), 12) - 1
            /\ side = 0 =>          \* down
                  /\ last.min_y = before.max_y
                  /\ last.min_x = before.min_x
                  /\ last.width = before.max_x - before.min_x
            /\ side = 1 =>          \* left
                  /\ last.min_x + last.width = before.min_x
                  /\ last.min_y = before.min_y
                  /\ last.height = before.max_y - before.min_y
            /\ side = 2 =>          \* up
                  /\ last.min_y + last.height = before.min_y
                  /\ last.min_x = before.min_x
                  /\ last.width = before.max_x - before.min_x
            /\ side = 3 =>          \* right
                  /\ last.min_x = before.max_x
                  /\ last.min_y = before.min_y
                  /\ last.height = before.max_y - before.min_y
            /\ base_x = all.min_x
            /\ base_y = all.min_y
            /\ current_width = all.max_x - all.min_x
            /\ current_height = all.max_y - all.min_y

\* twelve rectangles are placed, the box having grown left and up
LayoutAllSidesPlaced ==
    /\ lay_pc = "loop" /\ lay_i = 12 /\ Len(temp_rectangles) = 12
    /\ base_x < 0 /\ base_y < 0

\* the cells of the grid drawn by the edges of the rectangles rs
XEdges(rs) ==
    { rs[k].rect.min_x : k \in 1..Len(rs) }
        \cup { rs[k].rect.min_x + rs[k].rect.width : k \in 1..Len(rs) }
YEdges(rs) ==
    { rs[k].rect.min_y : k \in 1..Len(rs) }
        \cup { rs[k].rect.min_y + rs[k].rect.height : k \in 1..Len(rs) }
Intervals(edges) ==
    { p \in edges \X edges :
        p[1] < p[2] /\ ~ \E c \in edges : p[1] < c /\ c < p[2] }

\* the rectangle r covers the grid cell xi x yi
Covers(r, xi, yi) ==
    /\ r.min_x <= xi[1] /\ xi[2] <= r.min_x + r.width
    /\ r.min_y <= yi[1] /\ yi[2] <= r.min_y + r.height

\* the interiors of the rectangles a and b meet
InteriorsMeet(a, b) ==
    /\ a.min_x < b.min_x + b.width /\ b.min_x < a.min_x + a.width
    /\ a.min_y < b.min_y + b.height /\ b.min_y < a.min_y + a.height

\* rs have positive sizes, pairwise disjoint interiors, and every cell of
\* their bounding box lies in exactly one of them
TilesItsBoundingBox(rs) ==
    /\ \A k \in 1..Len(rs) : rs[k].rect.width > 0 /\ rs[k].rect.height > 0
    /\ \A j, k \in 1..Len(rs) :
          j < k => ~InteriorsMeet(rs[j].rect, rs[k].rect)
    /\ \A xi \in Intervals(XEdges(rs)), yi \in Intervals(YEdges(rs)) :
          Cardinality({ k \in 1..Len(rs) : Covers(rs[k].rect, xi, yi) }) = 1

\* C18: for every sequence of 3 or more terms, after every placement step
\* and in the returned list, the rectangles have positive width and height,
\* no two overlap, and together they cover their bounding box exactly.
LayoutTilesBoundingBox ==
    /\ (lay_pc \in {"loop", "done"} /\ Len(lay_sequence) >= 3)
          => TilesItsBoundingBox(temp_rectangles)
    /\ (lay_pc = "done" /\ Len(lay_sequence) >= 3)
          => TilesItsBoundingBox(rectangles)

\* a sequence of exactly 12 terms has been laid out as 12 rectangles
LayoutTwelveReturned ==
    /\ lay_pc = "done" /\ Len(lay_sequence) = 12 /\ Len(rectangles) = 12
    /\ rectangles[12].rect.width > 0 /\ rectangles[12].rect.height > 0

(***************************************************************************)
(* Properties of the view-model, continued, checked under Spec             *)
(***************************************************************************)
\* C17: in every state reached by input edits, calculate and reset events,
\* current_n <= 25 and fibonacci_sequence is either empty, and then
\* current_n = 0, or has exactly current_n + 1 elements; so the elements
\* [current_n] and [current_n - 1] that render_math_info reads when
\* len >= 2 and current_n > 1 exist, and no frame indexes past the end.
ViewModelSequenceMatchesN ==
    /\ current_n <= 25
    /\ fibonacci_sequence = <<>> => current_n = 0
    /\ fibonacci_sequence # <<>> => Len(fibonacci_sequence) = current_n + 1
    /\ (Len(fibonacci_sequence) >= 2 /\ current_n > 1) =>
          /\ current_n + 1 \in DOMAIN fibonacci_sequence
          /\ current_n \in DOMAIN fibonacci_sequence
    /\ "math_info_panic" \notin rendered

\* the frame that calculated F(25) rendered the mathematical properties
MathInfoRenderedAt25 ==
    /\ "math_info" \in rendered /\ last_event = "calculate"
    /\ current_n = 25 /\ Len(fibonacci_sequence) = 26

(***************************************************************************)
(* Properties of the label drawing, checked under SpecDraw                 *)
(***************************************************************************)
\* C16: the font size of a label depends only on the smaller dimension d of
\* its rectangle: d <= 25 px gives 10 pt, 25 < d <= 40 gives 12 pt,
\* 40 < d <= 60 gives 14 pt, 60 < d <= 80 gives 16 pt and d > 80 gives 20 pt.
LabelSizeFollowsLadder ==
    text_size # 0 =>
        LET d == IF draw_rect.width <= draw_rect.height
                 THEN draw_rect.width ELSE draw_rect.height
        IN  /\ d <= 25 * Fx => text_size = 10
            /\ (25 * Fx < d /\ d <= 40 * Fx) => text_size = 12
            /\ (40 * Fx < d /\ d <= 60 * Fx) => text_size = 14
            /\ (60 * Fx < d /\ d <= 80 * Fx) => text_size = 16
            /\ d > 80 * Fx => text_size = 20

\* a rectangle 80 px high and wider than that got its label size
LabelSizedAtThreshold ==
    /\ text_size # 0
    /\ draw_rect.height = 80 * Fx /\ draw_rect.width > 80 * Fx

====
